---- MODULE Spec2Model ----
(***************************************************************************)
(* bitwise-flag: a registry that assigns one bit per flag name             *)
(* (FlagsRegistry) and an immutable, validated bitmask bound to it (Flag). *)
(*                                                                         *)
(* Bitmasks are JavaScript BigInts and are modelled as unbounded TLA+      *)
(* integers.  Flag names are strings.  Flag instances live in a heap, a    *)
(* sequence of objects whose index is the object's identity.               *)
(***************************************************************************)
EXTENDS Integers, Sequences, FiniteSets, TLC

(***************************************************************************)
(* Bounds of the model.                                                    *)
(***************************************************************************)
MaxKeys == 3        \* longest argument list of FlagsRegistry.from
MaxArgs == 3        \* longest key list given to combine
MaxNames == 2       \* longest name list given to add / remove
MaxFlags == 2       \* most Flag instances alive in the heap
MaxValue == 5       \* largest bitmask handed to new Flag / parse directly

KeyNames == {"A", "B"}            \* the names registries are built from
Names == KeyNames \cup {"Z"}       \* the strings callers pass as flag names
MaxWideKeys == 4    \* longest argument list of FlagsRegistry.from in SpecRegistry
WideKeyNames == {"A", "B", "C"}   \* the names registries are built from in SpecRegistry
WideNames == WideKeyNames \cup {"Z"}

RECURSIVE SeqsUpTo(_, _)
SeqsUpTo(S, n) ==
    IF n = 0 THEN {<<>>}
    ELSE LET shorter == SeqsUpTo(S, n - 1)
         IN  shorter \cup {Append(s, x) : s \in {t \in shorter : Len(t) = n - 1}, x \in S}

(***************************************************************************)
(* BigInt arithmetic used by the code: |, &, & ~, <<.                      *)
(***************************************************************************)
RECURSIVE BitOr(_, _)
BitOr(a, b) ==
    IF a = 0 THEN b
    ELSE IF b = 0 THEN a
    ELSE (IF a % 2 = 1 \/ b % 2 = 1 THEN 1 ELSE 0) + 2 * BitOr(a \div 2, b \div 2)

RECURSIVE BitAnd(_, _)
BitAnd(a, b) ==
    IF a = 0 \/ b = 0 THEN 0
    ELSE (IF a % 2 = 1 /\ b % 2 = 1 THEN 1 ELSE 0) + 2 * BitAnd(a \div 2, b \div 2)

\* a & ~b for non-negative a and b: the bits of a that are not bits of b
RECURSIVE BitAndNot(_, _)
BitAndNot(a, b) ==
    IF a = 0 THEN 0
    ELSE (IF a % 2 = 1 /\ b % 2 = 0 THEN 1 ELSE 0) + 2 * BitAndNot(a \div 2, b \div 2)

\* 1n << BigInt(i)
RECURSIVE Shl1(_)
Shl1(i) == IF i = 0 THEN 1 ELSE 2 * Shl1(i - 1)

(***************************************************************************)
(* JavaScript values the code tests for truthiness.                        *)
(***************************************************************************)
Undefined == -1                      \* Map.get of a missing key; no bit value is negative
Falsy(v) == v = Undefined \/ v = 0   \* !value on a bigint | undefined
Null == <<>>                         \* Flag._alias before the first read; a string s is kept as <<s>>

(***************************************************************************)
(* The registry: Map<TFlags, bigint>, a sequence of entries in insertion   *)
(* order.                                                                  *)
(***************************************************************************)
\* Map.prototype.set: overwrite in place when the key exists, else append
MapSet(m, k, v) ==
    IF \E i \in 1..Len(m) : m[i].key = k
    THEN [i \in 1..Len(m) |-> IF m[i].key = k THEN [key |-> k, value |-> v] ELSE m[i]]
    ELSE Append(m, [key |-> k, value |-> v])

\* Map.prototype.get
MapGet(m, k) ==
    IF \E i \in 1..Len(m) : m[i].key = k
    THEN m[CHOOSE i \in 1..Len(m) : m[i].key = k].value
    ELSE Undefined

\* unique that keeps every element
unique_keepAll(arr) == arr

\* [...new Set(arr)]: distinct elements in first-seen order
RECURSIVE unique(_)
unique(arr) ==
    IF arr = <<>> THEN <<>>
    ELSE LET front == unique(SubSeq(arr, 1, Len(arr) - 1))
             x == arr[Len(arr)]
         IN  IF \E i \in 1..Len(front) : front[i] = x THEN front ELSE Append(front, x)

\* unique(flagKeys).reduce((acc, current, i) => acc.set(current, 1n << BigInt(i)), new Map())
RECURSIVE fromReduce(_, _)
fromReduce(keys, n) ==
    IF n = 0 THEN <<>>
    ELSE MapSet(fromReduce(keys, n - 1), keys[n], Shl1(n - 1))

from(flagKeys) == LET u == unique(flagKeys) IN fromReduce(u, Len(u))

get(flags, flagName) == MapGet(flags, flagName)

\* keys() that walks the Map from its newest entry to its oldest
keys_reversed(flags) == [i \in 1..Len(flags) |-> flags[Len(flags) + 1 - i].key]

keys(flags) == [i \in 1..Len(flags) |-> flags[i].key]
values(flags) == [i \in 1..Len(flags) |-> flags[i].value]
entries(flags) == [i \in 1..Len(flags) |-> <<flags[i].key, flags[i].value>>]

(***************************************************************************)
(* Results of a call: a returned Flag (by identity), a returned primitive  *)
(* or a thrown Error (by message).                                         *)
(***************************************************************************)
NoResult == [kind |-> "none", ref |-> 0, bool |-> FALSE, num |-> 0, str |-> "", list |-> <<>>]
Ref(id) == [NoResult EXCEPT !.kind = "flag", !.ref = id]
Bool(b) == [NoResult EXCEPT !.kind = "bool", !.bool = b]
Str(s) == [NoResult EXCEPT !.kind = "string", !.str = s]
BigIntOrUndefined(v) ==
    IF v = Undefined THEN [NoResult EXCEPT !.kind = "undefined"]
    ELSE [NoResult EXCEPT !.kind = "bigint", !.num = v]
List(l) == [NoResult EXCEPT !.kind = "list", !.list = l]
Throw(msg) == [NoResult EXCEPT !.kind = "error", !.str = msg]

NegativeMsg(value) == "Flag value cannot be negative: " \o ToString(value)
UnknownFlagsMsg == "Flag value contains unknown flags"
NotFoundMsg(name) == "Flag with key " \o name \o " is not found."

(***************************************************************************)
(* Flag                                                                    *)
(***************************************************************************)
\* this.context.values().reduce((acc, value) => acc | value, 0n)
RECURSIVE knownFlags(_, _)
knownFlags(flags, n) ==
    IF n = 0 THEN 0 ELSE BitOr(knownFlags(flags, n - 1), values(flags)[n])

\* validate without the unknown-bits test
validate_negativeOnly(flags, value) ==
    IF value < 0 THEN NegativeMsg(value) ELSE ""

\* validate with the two tests in the other order: in two's complement a negative
\* value has every high bit set, so value & ~knownFlags is not 0n
validate_unknownFirst(flags, value) ==
    IF value < 0 \/ BitAndNot(value, knownFlags(flags, Len(flags))) # 0 THEN UnknownFlagsMsg
    ELSE ""

\* Flag.validate: the message it throws, or "" when it returns normally
validate(flags, value) ==
    IF value < 0 THEN NegativeMsg(value)
    ELSE IF BitAndNot(value, knownFlags(flags, Len(flags))) # 0 THEN UnknownFlagsMsg
    ELSE ""

\* new Flag(context, value): validate, and on success a fresh instance with _alias = null
construct(flags, heap, value) ==
    LET thrown == validate(flags, value)
    IN  IF thrown # "" THEN [heap |-> heap, res |-> Throw(thrown)]
        ELSE [heap |-> Append(heap, [value |-> value, alias |-> Null]),
              res |-> Ref(Len(heap) + 1)]

isEmpty(thisValue) == thisValue = 0

\* has that answers whether the registry knows the name
has_knownOnly(flags, thisValue, flagName) == ~Falsy(get(flags, flagName))

has(flags, thisValue, flagName) ==
    LET value == get(flags, flagName)
    IN  IF Falsy(value) THEN FALSE ELSE BitAnd(thisValue, value) # 0

\* the add reducer that passes over a name the registry does not know
RECURSIVE addReduce_skipUnknown(_, _, _, _)
addReduce_skipUnknown(flags, thisValue, flagNames, n) ==
    IF n = 0 THEN [thrown |-> "", acc |-> thisValue]
    ELSE LET prev == addReduce_skipUnknown(flags, thisValue, flagNames, n - 1)
             value == get(flags, flagNames[n])
         IN  IF Falsy(value) THEN prev
             ELSE [thrown |-> prev.thrown, acc |-> BitOr(prev.acc, value)]

\* the add reducer that joins each new bit to this.value and not to the accumulator
RECURSIVE addReduce_lastWins(_, _, _, _)
addReduce_lastWins(flags, thisValue, flagNames, n) ==
    IF n = 0 THEN [thrown |-> "", acc |-> thisValue]
    ELSE LET prev == addReduce_lastWins(flags, thisValue, flagNames, n - 1)
             name == flagNames[n]
             value == get(flags, name)
         IN  IF prev.thrown # "" THEN prev
             ELSE IF has(flags, thisValue, name) THEN prev
             ELSE IF Falsy(value) THEN [thrown |-> NotFoundMsg(name), acc |-> prev.acc]
             ELSE [thrown |-> "", acc |-> BitOr(thisValue, value)]

\* the reducer of the variadic add, folded over the first n names:
\* [thrown |-> message or "", acc |-> accumulator]
RECURSIVE addReduce(_, _, _, _)
addReduce(flags, thisValue, flagNames, n) ==
    IF n = 0 THEN [thrown |-> "", acc |-> thisValue]
    ELSE LET prev == addReduce(flags, thisValue, flagNames, n - 1)
             name == flagNames[n]
             value == get(flags, name)
         IN  IF prev.thrown # "" THEN prev
             ELSE IF has(flags, thisValue, name) THEN prev
             ELSE IF Falsy(value) THEN [thrown |-> NotFoundMsg(name), acc |-> prev.acc]
             ELSE [thrown |-> "", acc |-> BitOr(prev.acc, value)]

\* add without the combinedValue === this.value test: always a new instance
add_alwaysNew(flags, heap, this, flagNames) ==
    LET r == addReduce(flags, heap[this].value, flagNames, Len(flagNames))
    IN  IF r.thrown # "" THEN [heap |-> heap, res |-> Throw(r.thrown)]
        ELSE construct(flags, heap, r.acc)

\* add that writes the combined bitmask into the receiver and returns it
add_inPlace(flags, heap, this, flagNames) ==
    LET r == addReduce(flags, heap[this].value, flagNames, Len(flagNames))
    IN  IF r.thrown # "" THEN [heap |-> heap, res |-> Throw(r.thrown)]
        ELSE [heap |-> [heap EXCEPT ![this].value = r.acc], res |-> Ref(this)]

\* add(...flagNames), the variadic Flag
add(flags, heap, this, flagNames) ==
    LET r == addReduce(flags, heap[this].value, flagNames, Len(flagNames))
    IN  IF r.thrown # "" THEN [heap |-> heap, res |-> Throw(r.thrown)]
        ELSE IF r.acc = heap[this].value THEN [heap |-> heap, res |-> Ref(this)]
        ELSE construct(flags, heap, r.acc)

\* the remove reducer that clears each bit in this.value and not in the accumulator
RECURSIVE removeReduce_fromThis(_, _, _, _)
removeReduce_fromThis(flags, thisValue, flagNames, n) ==
    IF n = 0 THEN [thrown |-> "", acc |-> thisValue]
    ELSE LET prev == removeReduce_fromThis(flags, thisValue, flagNames, n - 1)
             name == flagNames[n]
             value == get(flags, name)
         IN  IF prev.thrown # "" THEN prev
             ELSE IF Falsy(value) THEN [thrown |-> NotFoundMsg(name), acc |-> prev.acc]
             ELSE IF ~has(flags, thisValue, name) THEN prev
             ELSE [thrown |-> "", acc |-> BitAndNot(thisValue, value)]

\* the remove reducer that flips the name's bit without asking whether it is set
RECURSIVE removeReduce_toggle(_, _, _, _)
removeReduce_toggle(flags, thisValue, flagNames, n) ==
    IF n = 0 THEN [thrown |-> "", acc |-> thisValue]
    ELSE LET prev == removeReduce_toggle(flags, thisValue, flagNames, n - 1)
             name == flagNames[n]
             value == get(flags, name)
         IN  IF prev.thrown # "" THEN prev
             ELSE IF Falsy(value) THEN [thrown |-> NotFoundMsg(name), acc |-> prev.acc]
             ELSE IF BitAnd(prev.acc, value) # 0
             THEN [thrown |-> "", acc |-> BitAndNot(prev.acc, value)]
             ELSE [thrown |-> "", acc |-> BitOr(prev.acc, value)]

RECURSIVE removeReduce(_, _, _, _)
removeReduce(flags, thisValue, flagNames, n) ==
    IF n = 0 THEN [thrown |-> "", acc |-> thisValue]
    ELSE LET prev == removeReduce(flags, thisValue, flagNames, n - 1)
             name == flagNames[n]
             value == get(flags, name)
         IN  IF prev.thrown # "" THEN prev
             ELSE IF Falsy(value) THEN [thrown |-> NotFoundMsg(name), acc |-> prev.acc]
             ELSE IF ~has(flags, thisValue, name) THEN prev
             ELSE [thrown |-> "", acc |-> BitAndNot(prev.acc, value)]

\* remove(...flagNames), the variadic Flag
remove(flags, heap, this, flagNames) ==
    LET r == removeReduce(flags, heap[this].value, flagNames, Len(flagNames))
    IN  IF r.thrown # "" THEN [heap |-> heap, res |-> Throw(r.thrown)]
        ELSE IF r.acc = heap[this].value THEN [heap |-> heap, res |-> Ref(this)]
        ELSE construct(flags, heap, r.acc)

\* add(flagName), the single-name Flag of lib/Flag.ts
addOne(flags, heap, this, flagName) ==
    IF has(flags, heap[this].value, flagName) THEN [heap |-> heap, res |-> Ref(this)]
    ELSE LET value == get(flags, flagName)
         IN  IF Falsy(value) THEN [heap |-> heap, res |-> Throw(NotFoundMsg(flagName))]
             ELSE construct(flags, heap, BitOr(heap[this].value, value))

\* remove(flagName), the single-name Flag of lib/Flag.ts
removeOne(flags, heap, this, flagName) ==
    IF ~has(flags, heap[this].value, flagName) THEN [heap |-> heap, res |-> Ref(this)]
    ELSE LET value == get(flags, flagName)
         IN  IF Falsy(value) THEN [heap |-> heap, res |-> Throw(NotFoundMsg(flagName))]
             ELSE construct(flags, heap, BitAndNot(heap[this].value, value))

\* activeFlags collected in the reverse of the registry's order
RECURSIVE activeFlags_reversed(_, _, _)
activeFlags_reversed(flags, thisValue, n) ==
    IF n = 0 THEN <<>>
    ELSE LET rest == activeFlags_reversed(flags, thisValue, n - 1)
             e == entries(flags)[n]
         IN  IF BitAnd(thisValue, e[2]) = e[2] THEN <<e[1]>> \o rest ELSE rest

\* entries.filter(([_, value]) => (this.value & value) === value).map(([key, _]) => key).toArray()
RECURSIVE activeFlags(_, _, _)
activeFlags(flags, thisValue, n) ==
    IF n = 0 THEN <<>>
    ELSE LET rest == activeFlags(flags, thisValue, n - 1)
             e == entries(flags)[n]
         IN  IF BitAnd(thisValue, e[2]) = e[2] THEN Append(rest, e[1]) ELSE rest

\* Array.prototype.join
RECURSIVE join(_, _)
join(arr, sep) ==
    IF arr = <<>> THEN ""
    ELSE IF Len(arr) = 1 THEN arr[1]
    ELSE join(SubSeq(arr, 1, Len(arr) - 1), sep) \o sep \o arr[Len(arr)]

\* alias that computes the label on every read and never writes the cache
alias_noStore(flags, heap, this) ==
    IF heap[this].value = 0 THEN [heap |-> heap, res |-> Str("EMPTY_FLAG")]
    ELSE [heap |-> heap,
          res |-> Str("[" \o join(activeFlags(flags, heap[this].value, Len(flags)), "+") \o "]")]

\* get alias(): the string returned and the heap with the cache cell written
alias(flags, heap, this) ==
    IF heap[this].alias # Null /\ heap[this].alias[1] # ""
    THEN [heap |-> heap, res |-> Str(heap[this].alias[1])]
    ELSE IF heap[this].value = 0
    THEN [heap |-> [heap EXCEPT ![this].alias = <<"EMPTY_FLAG">>], res |-> Str("EMPTY_FLAG")]
    ELSE LET s == "[" \o join(activeFlags(flags, heap[this].value, Len(flags)), "+") \o "]"
         IN  [heap |-> [heap EXCEPT ![this].alias = <<s>>], res |-> Str(s)]

\* toString with the value before the alias
toString_valueFirst(flags, heap, this) ==
    LET a == alias(flags, heap, this)
    IN  [heap |-> a.heap,
         res |-> Str("Flag(" \o ToString(heap[this].value) \o ": " \o a.res.str \o ")")]

\* toString(): `Flag(${this.alias}: ${this.value})`
toString(flags, heap, this) ==
    LET a == alias(flags, heap, this)
    IN  [heap |-> a.heap,
         res |-> Str("Flag(" \o a.res.str \o ": " \o ToString(heap[this].value) \o ")")]

(***************************************************************************)
(* JavaScript numbers and parseInt.  A number is an integer n, n + 1/2     *)
(* (standing for the non-integers) or NaN.  A text is a sequence of        *)
(* one-character strings.                                                  *)
(***************************************************************************)
Int_(n) == [kind |-> "int", n |-> n]
Frac(n) == [kind |-> "frac", n |-> n]
NaN == [kind |-> "nan", n |-> 0]

isNaN(x) == x.kind = "nan"

WhiteSpace == {" ", "\t", "\n"}
LowerDigits == <<"0", "1", "2", "3", "4", "5", "6", "7", "8", "9", "a", "b", "c", "d", "e",
                 "f", "g", "h", "i", "j", "k", "l", "m", "n", "o", "p", "q", "r", "s", "t",
                 "u", "v", "w", "x", "y", "z">>
UpperDigits == <<"0", "1", "2", "3", "4", "5", "6", "7", "8", "9", "A", "B", "C", "D", "E",
                 "F", "G", "H", "I", "J", "K", "L", "M", "N", "O", "P", "Q", "R", "S", "T",
                 "U", "V", "W", "X", "Y", "Z">>

\* the value of c as a digit, or Undefined when c is no letter or digit
DigitValue(c) ==
    IF \E i \in 1..Len(LowerDigits) : LowerDigits[i] = c
    THEN (CHOOSE i \in 1..Len(LowerDigits) : LowerDigits[i] = c) - 1
    ELSE IF \E i \in 1..Len(UpperDigits) : UpperDigits[i] = c
    THEN (CHOOSE i \in 1..Len(UpperDigits) : UpperDigits[i] = c) - 1
    ELSE Undefined

IsDigit(c, R) == DigitValue(c) # Undefined /\ DigitValue(c) < R

RECURSIVE TrimStart(_)
TrimStart(t) == IF t # <<>> /\ t[1] \in WhiteSpace THEN TrimStart(Tail(t)) ELSE t

\* the longest prefix of t made of radix-R digits
RECURSIVE DigitPrefix(_, _)
DigitPrefix(t, R) ==
    IF t # <<>> /\ IsDigit(t[1], R) THEN <<t[1]>> \o DigitPrefix(Tail(t), R) ELSE <<>>

RECURSIVE DigitsValue(_, _)
DigitsValue(z, R) ==
    IF z = <<>> THEN 0
    ELSE DigitsValue(SubSeq(z, 1, Len(z) - 1), R) * R + DigitValue(z[Len(z)])

\* parseInt(string, radix) of ECMAScript; radix = Undefined when the argument is omitted
parseInt(string, radix) ==
    LET S0 == TrimStart(string)
        sign == IF S0 # <<>> /\ S0[1] = "-" THEN -1 ELSE 1
        S1 == IF S0 # <<>> /\ S0[1] \in {"+", "-"} THEN Tail(S0) ELSE S0
        R0 == IF radix = Undefined THEN 0 ELSE radix
        stripPrefix == R0 = 0 \/ R0 = 16
        R1 == IF R0 = 0 THEN 10 ELSE R0
        hasPrefix == stripPrefix /\ Len(S1) >= 2 /\ S1[1] = "0" /\ S1[2] \in {"x", "X"}
        S2 == IF hasPrefix THEN Tail(Tail(S1)) ELSE S1
        R == IF hasPrefix THEN 16 ELSE R1
        Z == DigitPrefix(S2, R)
    IN  IF R0 # 0 /\ (R0 < 2 \/ R0 > 36) THEN NaN
        ELSE IF Z = <<>> THEN NaN
        ELSE Int_(sign * DigitsValue(Z, R))

CannotParseMsg(value, radix) ==
    "Cannot parse value " \o join(value, "") \o " with radix "
        \o ToString(IF radix = Undefined THEN 10 ELSE radix) \o "."
NotAnIntegerMsg == "RangeError: the number cannot be converted to a BigInt because it is not an integer"

(***************************************************************************)
(* FlagsRegistry                                                           *)
(***************************************************************************)
\* empty that builds the flag from the first bit
empty_firstBit(flags, heap) == construct(flags, heap, 1)

empty(flags, heap) == construct(flags, heap, 0)

\* the combine reducer that returns the key's bit and drops the accumulator
RECURSIVE combineReduce_lastWins(_, _, _)
combineReduce_lastWins(flags, flagKeys, n) ==
    IF n = 0 THEN [thrown |-> "", acc |-> 0]
    ELSE LET prev == combineReduce_lastWins(flags, flagKeys, n - 1)
             key == flagKeys[n]
             flagValue == get(flags, key)
         IN  IF prev.thrown # "" THEN prev
             ELSE IF Falsy(flagValue) THEN [thrown |-> NotFoundMsg(key), acc |-> prev.acc]
             ELSE [thrown |-> "", acc |-> flagValue]

\* the combine reducer that passes over a key the registry does not know
RECURSIVE combineReduce_skipUnknown(_, _, _)
combineReduce_skipUnknown(flags, flagKeys, n) ==
    IF n = 0 THEN [thrown |-> "", acc |-> 0]
    ELSE LET prev == combineReduce_skipUnknown(flags, flagKeys, n - 1)
             flagValue == get(flags, flagKeys[n])
         IN  IF Falsy(flagValue) THEN prev
             ELSE [thrown |-> "", acc |-> BitOr(prev.acc, flagValue)]

\* the reducer of combine folded over the first n keys
RECURSIVE combineReduce(_, _, _)
combineReduce(flags, flagKeys, n) ==
    IF n = 0 THEN [thrown |-> "", acc |-> 0]
    ELSE LET prev == combineReduce(flags, flagKeys, n - 1)
             key == flagKeys[n]
             flagValue == get(flags, key)
         IN  IF prev.thrown # "" THEN prev
             ELSE IF Falsy(flagValue) THEN [thrown |-> NotFoundMsg(key), acc |-> prev.acc]
             ELSE [thrown |-> "", acc |-> BitOr(prev.acc, flagValue)]

combine(flags, heap, flagKeys) ==
    LET r == combineReduce(flags, flagKeys, Len(flagKeys))
    IN  IF r.thrown # "" THEN [heap |-> heap, res |-> Throw(r.thrown)]
        ELSE construct(flags, heap, r.acc)

\* parse that adopts a bigint as the bitmask without constructing through validate
parse_trustsBigint(flags, heap, value, radix) ==
    IF value.type = "bigint"
    THEN [heap |-> Append(heap, [value |-> value.num.n, alias |-> Null]),
          res |-> Ref(Len(heap) + 1)]
    ELSE IF value.type = "number"
    THEN IF value.num.kind = "int" THEN construct(flags, heap, value.num.n)
         ELSE [heap |-> heap, res |-> Throw(NotAnIntegerMsg)]
    ELSE LET parsedValue == parseInt(value.text, radix)
         IN  IF isNaN(parsedValue)
             THEN [heap |-> heap, res |-> Throw(CannotParseMsg(value.text, radix))]
             ELSE construct(flags, heap, parsedValue.n)

\* parse that refuses a falsy value (0n, 0, "") as unparseable before looking at its type
parse_falsyGuard(flags, heap, value, radix) ==
    IF (value.type \in {"bigint", "number"} /\ value.num = Int_(0))
           \/ (value.type = "string" /\ value.text = <<>>)
    THEN [heap |-> heap, res |-> Throw(CannotParseMsg(value.text, radix))]
    ELSE IF value.type = "bigint" THEN construct(flags, heap, value.num.n)
    ELSE IF value.type = "number"
    THEN IF value.num.kind = "int" THEN construct(flags, heap, value.num.n)
         ELSE [heap |-> heap, res |-> Throw(NotAnIntegerMsg)]
    ELSE LET parsedValue == parseInt(value.text, radix)
         IN  IF isNaN(parsedValue)
             THEN [heap |-> heap, res |-> Throw(CannotParseMsg(value.text, radix))]
             ELSE construct(flags, heap, parsedValue.n)

\* parse(value, radix); value is [type |-> "bigint" | "number" | "string", num, text]
parse(flags, heap, value, radix) ==
    IF value.type = "bigint" THEN construct(flags, heap, value.num.n)
    ELSE IF value.type = "number"
    THEN IF value.num.kind = "int" THEN construct(flags, heap, value.num.n)
         ELSE [heap |-> heap, res |-> Throw(NotAnIntegerMsg)]
    ELSE LET parsedValue == parseInt(value.text, radix)
         IN  IF isNaN(parsedValue)
             THEN [heap |-> heap, res |-> Throw(CannotParseMsg(value.text, radix))]
             ELSE construct(flags, heap, parsedValue.n)

(***************************************************************************)
(* Wide bitmasks.  A registry of more than 53 names has bits that a        *)
(* JavaScript number cannot hold exactly, and parse(text) goes through     *)
(* parseInt, which returns a number.  Here a non-negative BigInt is the    *)
(* set of the positions of its 1 bits: | is union, & is intersection,      *)
(* 1n << i is {i}.  Texts are binary digits read with radix 2.             *)
(***************************************************************************)
MantissaBits == 53  \* significant bits of a JavaScript number (an IEEE 754 double)
MaxDigits == 55     \* longest text given to parse in SpecBig

SetMax(S) == CHOOSE x \in S : \A y \in S : y <= x

\* S + 2^p, with the carry
RECURSIVE AddBit(_, _)
AddBit(S, p) == IF p \in S THEN AddBit(S \ {p}, p + 1) ELSE S \cup {p}

\* the nearest number to the integer S, ties to even
RoundToNumber(S) ==
    IF S = {} \/ SetMax(S) < MantissaBits THEN S
    ELSE LET cut == SetMax(S) - (MantissaBits - 1)
             kept == {b \in S : b >= cut}
             dropped == S \ kept
             roundUp == /\ (cut - 1) \in dropped
                        /\ (dropped # {cut - 1} \/ cut \in kept)
         IN  IF roundUp THEN AddBit(kept, cut) ELSE kept

\* the integer written by the binary digits Z
BitsOfDigits(Z) == {Len(Z) - j : j \in {i \in 1..Len(Z) : Z[i] = "1"}}

\* parseInt(string, 2) for a text without sign: the number it returns, or NaN
parseIntBig(string) ==
    LET Z == DigitPrefix(TrimStart(string), 2)
    IN  IF Z = <<>> THEN [kind |-> "nan", bits |-> {}]
        ELSE [kind |-> "int", bits |-> RoundToNumber(BitsOfDigits(Z))]

\* "F0", "F1", ...: n distinct names
bigKeys(n) == [i \in 1..n |-> "F" \o ToString(i - 1)]

\* unique(arr) for a long list: the elements at their first occurrence, in order
uniqueBig(arr) ==
    LET firsts == {i \in 1..Len(arr) : \A j \in 1..(i - 1) : arr[j] # arr[i]}
        nth(k) == CHOOSE i \in firsts : Cardinality({j \in firsts : j <= i}) = k
    IN  [k \in 1..Cardinality(firsts) |-> arr[nth(k)]]

\* from with the shift done on 32-bit integers, BigInt(1 << i): the bit position wraps
fromBig_int32(flagKeys) ==
    LET u == uniqueBig(flagKeys)
    IN  [i \in 1..Len(u) |-> [key |-> u[i], value |-> {(i - 1) % 32}]]

\* from(...flagKeys): the i-th distinct key is set once, to 1n << BigInt(i)
fromBig(flagKeys) ==
    LET u == uniqueBig(flagKeys)
    IN  [i \in 1..Len(u) |-> [key |-> u[i], value |-> {i - 1}]]

knownFlagsBig(flags) == UNION {flags[i].value : i \in 1..Len(flags)}

\* Flag.validate of a non-negative bitmask
validateBig(flags, value) ==
    IF value \ knownFlagsBig(flags) # {} THEN UnknownFlagsMsg ELSE ""

constructBig(flags, heap, value) ==
    LET thrown == validateBig(flags, value)
    IN  IF thrown # "" THEN [heap |-> heap, res |-> Throw(thrown)]
        ELSE [heap |-> Append(heap, [value |-> value, alias |-> Null]),
              res |-> Ref(Len(heap) + 1)]

hasBig(flags, thisValue, flagName) ==
    IF \E i \in 1..Len(flags) : flags[i].key = flagName
    THEN thisValue \cap flags[CHOOSE i \in 1..Len(flags) : flags[i].key = flagName].value # {}
    ELSE FALSE

\* Map.get on the wide registry; no bitmask holds the position -1
UndefinedBig == {-1}
FalsyBig(v) == v = UndefinedBig \/ v = {}

getBig(flags, flagName) ==
    IF \E i \in 1..Len(flags) : flags[i].key = flagName
    THEN flags[CHOOSE i \in 1..Len(flags) : flags[i].key = flagName].value
    ELSE UndefinedBig

\* combine(...flagKeys): the reduce throws at the first key that get does not find
combineBig(flags, heap, flagKeys) ==
    LET missing == {i \in 1..Len(flagKeys) : FalsyBig(getBig(flags, flagKeys[i]))}
    IN  IF missing # {}
        THEN [heap |-> heap,
              res |-> Throw(NotFoundMsg(flagKeys[CHOOSE i \in missing : \A j \in missing : i <= j]))]
        ELSE constructBig(flags, heap,
                          UNION {getBig(flags, flagKeys[i]) : i \in 1..Len(flagKeys)})

\* parse(value, 2) of a text
parseBig(flags, heap, value) ==
    LET parsedValue == parseIntBig(value)
    IN  IF parsedValue.kind = "nan"
        THEN [heap |-> heap, res |-> Throw(CannotParseMsg(value, 2))]
        ELSE constructBig(flags, heap, parsedValue.bits)

(***************************************************************************)
(* State.                                                                  *)
(*   pc    "start" before FlagsRegistry.from has run; then "idle" while    *)
(*         the caller is between calls and "returned" when a call has just *)
(*         returned or thrown and the caller holds its outcome             *)
(*   flags the registry's private Map                                      *)
(*   heap  the Flag instances created so far; an instance is its index     *)
(*   last  the call that has just returned: operation, receiver,           *)
(*         arguments, outcome                                              *)
(***************************************************************************)
VARIABLES pc, flags, heap, last

vars == <<pc, flags, heap, last>>

NoValue == [type |-> "none", num |-> Int_(0), text |-> <<>>]
BigIntValue(n) == [NoValue EXCEPT !.type = "bigint", !.num = Int_(n)]
NumberValue(x) == [NoValue EXCEPT !.type = "number", !.num = x]
StringValue(t) == [NoValue EXCEPT !.type = "string", !.text = t]

NoCall == [op |-> "none", this |-> 0, names |-> <<>>, value |-> NoValue, radix |-> Undefined,
           res |-> NoResult]
Call(op, this, names, value, radix, res) ==
    [op |-> op, this |-> this, names |-> names, value |-> value, radix |-> radix, res |-> res]

\* inputs the callers draw from
KeyLists == SeqsUpTo(Names, MaxArgs)
NameLists == SeqsUpTo(Names, MaxNames)
Bitmasks == (-2)..MaxValue
Numbers == {Int_(n) : n \in Bitmasks} \cup {Frac(1), NaN}
Texts == {<<>>, <<"1">>, <<"1", "1">>, <<"-", "1">>, <<"z">>, <<"1", "z">>, <<"0", "x", "3">>}
Radixes == {Undefined, 2, 16, 36, 37}
ParseInputs ==
    {<<BigIntValue(n), Undefined>> : n \in Bitmasks}
        \cup {<<NumberValue(x), Undefined>> : x \in Numbers}
        \cup {<<StringValue(t), r>> : t \in Texts, r \in Radixes}

Init ==
    /\ pc = "start"
    /\ flags = <<>>
    /\ heap = <<>>
    /\ last = NoCall

\* an operation whose outcome is out: commit its heap and record the call
Commit(out, call) ==
    /\ Len(out.heap) <= MaxFlags
    /\ heap' = out.heap
    /\ last' = call
    /\ pc' = "returned"
    /\ UNCHANGED flags

CallFrom(flagKeys) ==
    /\ pc = "start"
    /\ pc' = "returned"
    /\ flags' = from(flagKeys)
    /\ last' = Call("from", 0, flagKeys, NoValue, Undefined, NoResult)
    /\ UNCHANGED heap

CallGet(flagName) ==
    /\ pc = "idle"
    /\ Commit([heap |-> heap],
              Call("get", 0, <<flagName>>, NoValue, Undefined,
                   BigIntOrUndefined(get(flags, flagName))))

CallKeys ==
    /\ pc = "idle"
    /\ Commit([heap |-> heap], Call("keys", 0, <<>>, NoValue, Undefined, List(keys(flags))))

CallValues ==
    /\ pc = "idle"
    /\ Commit([heap |-> heap], Call("values", 0, <<>>, NoValue, Undefined, List(values(flags))))

CallEntries ==
    /\ pc = "idle"
    /\ Commit([heap |-> heap], Call("entries", 0, <<>>, NoValue, Undefined, List(entries(flags))))

CallEmpty ==
    /\ pc = "idle"
    /\ LET out == empty(flags, heap)
       IN  Commit(out, Call("empty", 0, <<>>, NoValue, Undefined, out.res))

CallCombine(flagKeys) ==
    /\ pc = "idle"
    /\ LET out == combine(flags, heap, flagKeys)
       IN  Commit(out, Call("combine", 0, flagKeys, NoValue, Undefined, out.res))

CallParse(value, radix) ==
    /\ pc = "idle"
    /\ LET out == parse(flags, heap, value, radix)
       IN  Commit(out, Call("parse", 0, <<>>, value, radix, out.res))

\* new Flag(registry, value)
CallNew(value) ==
    /\ pc = "idle"
    /\ LET out == construct(flags, heap, value)
       IN  Commit(out, Call("new", 0, <<>>, BigIntValue(value), Undefined, out.res))

CallIsEmpty(this) ==
    /\ pc = "idle"
    /\ Commit([heap |-> heap],
              Call("isEmpty", this, <<>>, NoValue, Undefined, Bool(isEmpty(heap[this].value))))

CallHas(this, flagName) ==
    /\ pc = "idle"
    /\ Commit([heap |-> heap],
              Call("has", this, <<flagName>>, NoValue, Undefined,
                   Bool(has(flags, heap[this].value, flagName))))

CallAdd(this, flagNames) ==
    /\ pc = "idle"
    /\ LET out == add(flags, heap, this, flagNames)
       IN  Commit(out, Call("add", this, flagNames, NoValue, Undefined, out.res))

CallRemove(this, flagNames) ==
    /\ pc = "idle"
    /\ LET out == remove(flags, heap, this, flagNames)
       IN  Commit(out, Call("remove", this, flagNames, NoValue, Undefined, out.res))

CallAddOne(this, flagName) ==
    /\ pc = "idle"
    /\ LET out == addOne(flags, heap, this, flagName)
       IN  Commit(out, Call("addOne", this, <<flagName>>, NoValue, Undefined, out.res))

CallRemoveOne(this, flagName) ==
    /\ pc = "idle"
    /\ LET out == removeOne(flags, heap, this, flagName)
       IN  Commit(out, Call("removeOne", this, <<flagName>>, NoValue, Undefined, out.res))

CallToString(this) ==
    /\ pc = "idle"
    /\ LET out == toString(flags, heap, this)
       IN  Commit(out, Call("toString", this, <<>>, NoValue, Undefined, out.res))

CallAlias(this) ==
    /\ pc = "idle"
    /\ LET out == alias(flags, heap, this)
       IN  Commit(out, Call("alias", this, <<>>, NoValue, Undefined, out.res))

\* the caller takes the outcome and is free to make the next call
Return ==
    /\ pc = "returned"
    /\ pc' = "idle"
    /\ last' = NoCall
    /\ UNCHANGED <<flags, heap>>

Next ==
    \/ Return
    \/ \E flagKeys \in SeqsUpTo(KeyNames, MaxKeys) : CallFrom(flagKeys)
    \/ \E flagName \in Names : CallGet(flagName)
    \/ CallKeys
    \/ CallValues
    \/ CallEntries
    \/ CallEmpty
    \/ \E flagKeys \in KeyLists : CallCombine(flagKeys)
    \/ \E in \in ParseInputs : CallParse(in[1], in[2])
    \/ \E value \in Bitmasks : CallNew(value)
    \/ \E this \in 1..Len(heap) : CallIsEmpty(this)
    \/ \E this \in 1..Len(heap), flagName \in Names : CallHas(this, flagName)
    \/ \E this \in 1..Len(heap), flagNames \in NameLists : CallAdd(this, flagNames)
    \/ \E this \in 1..Len(heap), flagNames \in NameLists : CallRemove(this, flagNames)
    \/ \E this \in 1..Len(heap), flagName \in Names : CallAddOne(this, flagName)
    \/ \E this \in 1..Len(heap), flagName \in Names : CallRemoveOne(this, flagName)
    \/ \E this \in 1..Len(heap) : CallToString(this)
    \/ \E this \in 1..Len(heap) : CallAlias(this)

Spec == Init /\ [][Next]_vars

(***************************************************************************)
(* The registry alone, over a wider vocabulary: construction and reads.    *)
(***************************************************************************)
NextRegistry ==
    \/ Return
    \/ \E flagKeys \in SeqsUpTo(WideKeyNames, MaxWideKeys) : CallFrom(flagKeys)
    \/ \E flagName \in WideNames : CallGet(flagName)
    \/ CallKeys
    \/ CallValues
    \/ CallEntries

SpecRegistry == Init /\ [][NextRegistry]_vars

(***************************************************************************)
(* The Flag classes alone: flags are constructed and then transformed by   *)
(* add and remove, multi-name and single-name.                             *)
(***************************************************************************)
NextFlag ==
    \/ Return
    \/ \E flagKeys \in SeqsUpTo(KeyNames, MaxKeys) : CallFrom(flagKeys)
    \/ \E value \in Bitmasks : CallNew(value)
    \/ \E this \in 1..Len(heap), flagNames \in NameLists : CallAdd(this, flagNames)
    \/ \E this \in 1..Len(heap), flagNames \in NameLists : CallRemove(this, flagNames)
    \/ \E this \in 1..Len(heap), flagName \in Names : CallAddOne(this, flagName)
    \/ \E this \in 1..Len(heap), flagName \in Names : CallRemoveOne(this, flagName)

SpecFlag == Init /\ [][NextFlag]_vars

(***************************************************************************)
(* The specification of the wide bitmasks: a registry of MaxDigits - 1 or  *)
(* MaxDigits names, and parse(text, 2) on it.                              *)
(***************************************************************************)
\* the texts 10...0 and 10...010...0 of n digits whose second 1 is among the last three
BigTexts ==
    {[i \in 1..n |-> IF i = 1 \/ i = n + 1 - k THEN "1" ELSE "0"] :
         n \in (MaxDigits - 2)..MaxDigits, k \in 0..3}
        \cup {<<"1", "0", "1">>, <<"1", "1", "z">>, <<"z">>}

CallFromBig(n) ==
    /\ pc = "start"
    /\ pc' = "returned"
    /\ flags' = fromBig(bigKeys(n))
    /\ last' = Call("from", 0, <<>>, NoValue, Undefined, NoResult)
    /\ UNCHANGED heap

CallParseBig(value) ==
    /\ pc = "idle"
    /\ LET out == parseBig(flags, heap, value)
       IN  Commit(out, Call("parse", 0, <<>>, StringValue(value), 2, out.res))

NextBig ==
    \/ Return
    \/ \E n \in {MaxDigits - 1, MaxDigits} : CallFromBig(n)
    \/ \E value \in BigTexts : CallParseBig(value)

SpecBig == Init /\ [][NextBig]_vars

(***************************************************************************)
(* The specification of scale: a registry of ScaleNames names, combine of  *)
(* lists of its names and has on the flags made.                           *)
(***************************************************************************)
ScaleNames == 100   \* the number of names of the scale test

\* all names, all names backwards, the first 64, one name, none, and a list with a stranger
ScaleKeyLists ==
    {bigKeys(ScaleNames),
     [i \in 1..ScaleNames |-> bigKeys(ScaleNames)[ScaleNames + 1 - i]],
     bigKeys(64), <<"F99">>, <<>>, <<"F0", "Z", "F1">>}

\* names has is asked about: the first, those around bits 31, 32 and 53, the last, a stranger
ScaleProbes == {"F0", "F31", "F32", "F53", "F63", "F64", "F99", "F100"}

CallCombineBig(flagKeys) ==
    /\ pc = "idle"
    /\ LET out == combineBig(flags, heap, flagKeys)
       IN  Commit(out, Call("combine", 0, flagKeys, NoValue, Undefined, out.res))

CallHasBig(this, flagName) ==
    /\ pc = "idle"
    /\ Commit([heap |-> heap],
              Call("has", this, <<flagName>>, NoValue, Undefined,
                   Bool(hasBig(flags, heap[this].value, flagName))))

NextScale ==
    \/ Return
    \/ CallFromBig(ScaleNames)
    \/ \E flagKeys \in ScaleKeyLists : CallCombineBig(flagKeys)
    \/ \E this \in 1..Len(heap), flagName \in ScaleProbes : CallHasBig(this, flagName)

SpecScale == Init /\ [][NextScale]_vars

(***************************************************************************)
(* Vocabulary of the properties, stated by arithmetic on the bitmask and   *)
(* not by the operators above.                                             *)
(***************************************************************************)
MaxBit == MaxKeys + MaxValue                       \* no bitmask of the model reaches 2^MaxBit
TestBit(v, b) == (v \div (2 ^ b)) % 2 = 1          \* bit number b of v >= 0
Known(name) == \E j \in 1..Len(flags) : flags[j].key = name
BitNo(name) == (CHOOSE j \in 1..Len(flags) : flags[j].key = name) - 1
Elems(seq) == {seq[i] : i \in 1..Len(seq)}
AllKnown(seq) == \A n \in Elems(seq) : Known(n)
FirstUnknown(seq) ==
    seq[CHOOSE i \in 1..Len(seq) : ~Known(seq[i]) /\ \A j \in 1..(i - 1) : Known(seq[j])]
IsSet(v, name) == Known(name) /\ TestBit(v, BitNo(name))
FirstIndex(seq, x) == CHOOSE i \in 1..Len(seq) : seq[i] = x /\ \A j \in 1..(i - 1) : seq[j] # x
Returned(op) == pc = "returned" /\ last.op = op
ReturnedFlag == last.res.kind = "flag" /\ last.res.ref \in 1..Len(heap)
Threw(msg) == last.res.kind = "error" /\ last.res.str = msg

(***************************************************************************)
(* C1  Validity: every Flag instance that exists has a value >= 0 with no  *)
(* bit set outside the bits the registry assigned, whatever sequence of    *)
(* empty, combine, parse, new Flag, add and remove produced it.            *)
(***************************************************************************)
C1_Validity ==
    \A i \in 1..Len(heap) :
        /\ heap[i].value >= 0
        /\ \A b \in 0..MaxBit :
               TestBit(heap[i].value, b) => \E j \in 1..Len(flags) : flags[j].value = 2 ^ b

\* two instances exist, the second made by add from the first, while the
\* registry leaves bitmasks that validation must refuse
C1_Witness ==
    /\ Returned("add")
    /\ ReturnedFlag
    /\ last.res.ref # last.this
    /\ heap[last.res.ref].value = 3
    /\ Len(flags) = 2

(***************************************************************************)
(* C8  new Flag(registry, v) throws the negative-value error carrying v    *)
(* when v < 0, otherwise the unknown-flags error when v has a bit outside  *)
(* the registry's bits, and otherwise succeeds with value v.               *)
(***************************************************************************)
C8_ConstructorValidation ==
    Returned("new") =>
        LET v == last.value.num.n
            inside == \A b \in 0..MaxBit :
                          TestBit(v, b) => \E j \in 1..Len(flags) : flags[j].value = 2 ^ b
        IN  /\ v < 0 => Threw("Flag value cannot be negative: " \o ToString(v))
            /\ (v >= 0 /\ ~inside) => Threw("Flag value contains unknown flags")
            /\ (v >= 0 /\ inside) => ReturnedFlag /\ heap[last.res.ref].value = v

\* a negative bitmask was refused as negative although the registry is not empty
C8_Witness ==
    /\ Returned("new")
    /\ last.value.num.n = -2
    /\ Len(flags) = 2
    /\ Threw("Flag value cannot be negative: -2")

(***************************************************************************)
(* C2  remove throws "Flag with key <name> is not found." whenever one of  *)
(* the given names is not registered, whatever bits the flag has set.      *)
(* Stated of both Flag classes of the repository: the variadic one and the *)
(* single-name one of lib/Flag.ts.                                         *)
(***************************************************************************)
C2_RemoveUnknownThrows ==
    ((Returned("remove") \/ Returned("removeOne")) /\ ~AllKnown(last.names)) =>
        \E n \in Elems(last.names) :
            ~Known(n) /\ Threw("Flag with key " \o n \o " is not found.")

(***************************************************************************)
(* C3  add throws the unknown-flag error whenever one of the given names   *)
(* is not registered, wherever it stands in the list and whatever the      *)
(* other names are; no Flag is returned.                                   *)
(***************************************************************************)
C3_AddUnknownThrows ==
    ((Returned("add") \/ Returned("addOne")) /\ ~AllKnown(last.names)) =>
        \E n \in Elems(last.names) :
            ~Known(n) /\ Threw("Flag with key " \o n \o " is not found.")

\* the unknown name came last, after a known name whose bit was not set
C3_Witness ==
    /\ Returned("add")
    /\ Len(last.names) = 2
    /\ Known(last.names[1])
    /\ ~IsSet(heap[last.this].value, last.names[1])
    /\ ~Known(last.names[2])
    /\ last.res.kind = "error"

(***************************************************************************)
(* C4  No-op identity.  With registered names, add returns the receiver    *)
(* itself exactly when every given name is already set (the empty list     *)
(* included) and remove returns the receiver itself exactly when none of   *)
(* the given names is set; otherwise the result is a new instance.         *)
(***************************************************************************)
C4_NoOpIdentity ==
    LET f == heap[last.this].value
        fresh == /\ last.res.ref # last.this
                 /\ last.res.ref = Len(heap)
                 /\ heap[last.res.ref].alias = Null
    IN  /\ ((Returned("add") \/ Returned("addOne")) /\ AllKnown(last.names)) =>
               /\ ReturnedFlag
               /\ (last.res.ref = last.this) <=> (\A n \in Elems(last.names) : IsSet(f, n))
               /\ (last.res.ref = last.this) \/ fresh
        /\ ((Returned("remove") \/ Returned("removeOne")) /\ AllKnown(last.names)) =>
               /\ ReturnedFlag
               /\ (last.res.ref = last.this) <=> (\A n \in Elems(last.names) : ~IsSet(f, n))
               /\ (last.res.ref = last.this) \/ fresh

\* add of two names that are both set returned the receiver
C4_Witness ==
    /\ Returned("add")
    /\ Len(last.names) = 2
    /\ last.names[1] # last.names[2]
    /\ \A n \in Elems(last.names) : IsSet(heap[last.this].value, n)
    /\ last.res = Ref(last.this)

(***************************************************************************)
(* C5  Immutability.  No call changes the value of an existing Flag, nor   *)
(* what has(n) answers on it for any name n.                               *)
(***************************************************************************)
C5_Immutability ==
    [][\A i \in 1..Len(heap) :
           /\ i \in 1..Len(heap')
           /\ heap'[i].value = heap[i].value
           /\ \A n \in Names : has(flags', heap'[i].value, n) = has(flags, heap[i].value, n)]_vars

\* add made a new instance with another value and the receiver kept its own
C5_Witness ==
    /\ Returned("add")
    /\ ReturnedFlag
    /\ last.res.ref # last.this
    /\ heap[last.this].value = 1
    /\ heap[last.res.ref].value = 3

(***************************************************************************)
(* C6  With registered names ns, the result of add has exactly the bits of *)
(* the receiver and of ns, the result of remove exactly the bits of the    *)
(* receiver that are not bits of ns; has(n) is true (add) or false         *)
(* (remove) for n in ns and unchanged for every other name.                *)
(***************************************************************************)
C6_AddRemoveResult ==
    LET f == heap[last.this].value
        r == heap[last.res.ref].value
        ns == Elems(last.names)
    IN  /\ ((Returned("add") \/ Returned("addOne")) /\ AllKnown(last.names)) =>
               /\ ReturnedFlag
               /\ \A b \in 0..MaxBit :
                      TestBit(r, b) <=> (TestBit(f, b) \/ \E n \in ns : BitNo(n) = b)
               /\ \A n \in ns : has(flags, r, n)
               /\ \A m \in Names \ ns : has(flags, r, m) = has(flags, f, m)
        /\ ((Returned("remove") \/ Returned("removeOne")) /\ AllKnown(last.names)) =>
               /\ ReturnedFlag
               /\ \A b \in 0..MaxBit :
                      TestBit(r, b) <=> (TestBit(f, b) /\ ~\E n \in ns : BitNo(n) = b)
               /\ \A n \in ns : ~has(flags, r, n)
               /\ \A m \in Names \ ns : has(flags, r, m) = has(flags, f, m)

\* remove of two distinct names, both set, emptied the flag
C6_Witness ==
    /\ Returned("remove")
    /\ Len(last.names) = 2
    /\ last.names[1] # last.names[2]
    /\ heap[last.this].value = 3
    /\ ReturnedFlag
    /\ heap[last.res.ref].value = 0

(***************************************************************************)
(* C7  FlagsRegistry.from keeps the distinct names in first-seen order and *)
(* gives the i-th of them (from 0) the bit 2^i; get answers that bit, and  *)
(* undefined for a name that was not given; a duplicate adds no bit.       *)
(* Checked under SpecRegistry.                                             *)
(***************************************************************************)
C7_FromAssignsBits ==
    /\ Returned("from") =>
           LET given == last.names
               ks == keys(flags)
           IN  /\ Elems(ks) = Elems(given)
               /\ Len(ks) = Cardinality(Elems(given))
               /\ \A i, j \in 1..Len(ks) :
                      i < j => FirstIndex(given, ks[i]) < FirstIndex(given, ks[j])
               /\ \A i \in 1..Len(ks) : get(flags, ks[i]) = 2 ^ (i - 1)
               /\ \A n \in WideNames \ Elems(given) : get(flags, n) = Undefined
    /\ Returned("get") =>
           LET n == last.names[1]
           IN  IF Known(n)
               THEN last.res.kind = "bigint" /\ last.res.num = 2 ^ BitNo(n)
               ELSE last.res.kind = "undefined"

\* from("x", "y", "x", "z") with x, y, z distinct: three keys, the third has bit 4
C7_Witness ==
    /\ Returned("from")
    /\ Len(last.names) = 4
    /\ last.names[1] = last.names[3]
    /\ Cardinality(Elems(last.names)) = 3
    /\ Len(flags) = 3
    /\ flags[3] = [key |-> last.names[4], value |-> 4]

(***************************************************************************)
(* C9  combine of registered names returns a flag whose value has exactly  *)
(* the bits of the given names: the order of the names and repetitions do  *)
(* not matter, and no names give 0.                                        *)
(***************************************************************************)
C9_CombineIsOr ==
    (Returned("combine") /\ AllKnown(last.names)) =>
        /\ ReturnedFlag
        /\ LET r == heap[last.res.ref].value
           IN  /\ \A b \in 0..MaxBit :
                      TestBit(r, b) <=> \E n \in Elems(last.names) : BitNo(n) = b
               /\ last.names = <<>> => r = 0
               /\ \A other \in KeyLists :
                      Elems(other) = Elems(last.names) =>
                          LET o == combine(flags, <<>>, other)
                          IN  o.res.kind = "flag" /\ o.heap[o.res.ref].value = r

\* the second key first, and the first key twice
C9_Witness ==
    /\ Returned("combine")
    /\ Len(flags) = 2
    /\ last.names = <<flags[2].key, flags[1].key, flags[2].key>>
    /\ ReturnedFlag
    /\ heap[last.res.ref].value = 3

(***************************************************************************)
(* C10  combine throws "Flag with key <name> is not found." for the first  *)
(* unregistered name of the list, wherever it stands, and returns no flag. *)
(***************************************************************************)
C10_CombineUnknownThrows ==
    (Returned("combine") /\ ~AllKnown(last.names)) =>
        Threw("Flag with key " \o FirstUnknown(last.names) \o " is not found.")

\* the unknown name stood in the middle, between two different known names
C10_Witness ==
    /\ Returned("combine")
    /\ Len(last.names) = 3
    /\ Known(last.names[1])
    /\ ~Known(last.names[2])
    /\ Known(last.names[3])
    /\ last.names[1] # last.names[3]
    /\ last.res.kind = "error"

(***************************************************************************)
(* C11  has(name) never fails and is true exactly when the registry knows  *)
(* the name and the name's bit is set in the flag's value.                 *)
(***************************************************************************)
C11_HasIsKnownAndSet ==
    Returned("has") =>
        /\ last.res.kind = "bool"
        /\ last.res.bool <=> IsSet(heap[last.this].value, last.names[1])

\* has answered false for an unknown name and the flag is not empty
C11_Witness ==
    /\ Returned("has")
    /\ ~Known(last.names[1])
    /\ heap[last.this].value = 3
    /\ last.res = Bool(FALSE)

(***************************************************************************)
(* C12  parse validates like the constructor.  Whenever parse obtains an   *)
(* integer from its input (a bigint, an integral number, a text parseInt   *)
(* reads), it throws the negative-value error if the integer is below      *)
(* zero, the unknown-flags error if it has a bit outside the registry's    *)
(* bits, and returns a flag with that integer only otherwise.              *)
(***************************************************************************)
C12_ParseValidates ==
    LET isInteger ==
            IF last.value.type = "string" THEN ~isNaN(parseInt(last.value.text, last.radix))
            ELSE last.value.num.kind = "int"
        v == IF last.value.type = "string" THEN parseInt(last.value.text, last.radix).n
             ELSE last.value.num.n
        inside == \A b \in 0..MaxBit :
                      TestBit(v, b) => \E j \in 1..Len(flags) : flags[j].value = 2 ^ b
    IN  /\ (Returned("parse") /\ isInteger) =>
               /\ v < 0 => Threw("Flag value cannot be negative: " \o ToString(v))
               /\ (v >= 0 /\ ~inside) => Threw("Flag value contains unknown flags")
               /\ (v >= 0 /\ inside) => ReturnedFlag /\ heap[last.res.ref].value = v
        /\ (Returned("parse") /\ ReturnedFlag) => isInteger /\ v >= 0 /\ inside

\* a text that reads as -1 was refused as negative
C12_Witness ==
    /\ Returned("parse")
    /\ last.value.type = "string"
    /\ last.value.text = <<"-", "1">>
    /\ Len(flags) = 2
    /\ Threw("Flag value cannot be negative: -1")

(***************************************************************************)
(* C13  parse(text, radix) throws "Cannot parse value <text> with radix    *)
(* <radix>." for every text that is not, as a whole, an integer literal of *)
(* the radix: an optional sign and then one or more digits of that radix.  *)
(***************************************************************************)
WholeLiteral(text, radix) ==
    LET R == IF radix = Undefined THEN 10 ELSE radix
        body == IF text # <<>> /\ text[1] \in {"+", "-"} THEN Tail(text) ELSE text
    IN  /\ R \in 2..36
        /\ body # <<>>
        /\ \A i \in 1..Len(body) : IsDigit(body[i], R)

C13_NonLiteralThrows ==
    (Returned("parse") /\ last.value.type = "string"
         /\ ~WholeLiteral(last.value.text, last.radix)) =>
        Threw(CannotParseMsg(last.value.text, last.radix))

(***************************************************************************)
(* C15  Round trip: for every flag f the registry made, parse(f.value)     *)
(* succeeds and returns a flag with the value of f.  Stated of every flag  *)
(* at the moment a call returns it.                                        *)
(***************************************************************************)
C15_RoundTrip ==
    (pc = "returned" /\ ReturnedFlag) =>
        LET f == heap[last.res.ref]
            o == parse(flags, heap, BigIntValue(f.value), Undefined)
        IN  /\ o.res.kind = "flag"
            /\ o.heap[o.res.ref].value = f.value

\* parse was given the value of an existing instance and returned a second one, its equal
C15_Witness ==
    /\ Returned("parse")
    /\ last.value = BigIntValue(3)
    /\ ReturnedFlag
    /\ last.res.ref = 2
    /\ heap[1].value = 3
    /\ heap[2].value = 3

(***************************************************************************)
(* C16  Idempotence: for every flag f and registered name n,               *)
(* f.add(n).add(n) has the bitmask of f.add(n) and f.remove(n).remove(n)   *)
(* has the bitmask of f.remove(n); in both Flag classes.  Stated of every  *)
(* flag at the moment a call returns it.                                   *)
(***************************************************************************)
C16_Idempotence ==
    (pc = "returned" /\ ReturnedFlag) => \A n \in Names :
        Known(n) =>
            LET i == last.res.ref
                a1 == add(flags, heap, i, <<n>>)
                a2 == add(flags, a1.heap, a1.res.ref, <<n>>)
                r1 == remove(flags, heap, i, <<n>>)
                r2 == remove(flags, r1.heap, r1.res.ref, <<n>>)
                b1 == addOne(flags, heap, i, n)
                b2 == addOne(flags, b1.heap, b1.res.ref, n)
                s1 == removeOne(flags, heap, i, n)
                s2 == removeOne(flags, s1.heap, s1.res.ref, n)
            IN  /\ a1.res.kind = "flag" /\ a2.res.kind = "flag"
                /\ a2.heap[a2.res.ref].value = a1.heap[a1.res.ref].value
                /\ r1.res.kind = "flag" /\ r2.res.kind = "flag"
                /\ r2.heap[r2.res.ref].value = r1.heap[r1.res.ref].value
                /\ b1.res.kind = "flag" /\ b2.res.kind = "flag"
                /\ b2.heap[b2.res.ref].value = b1.heap[b1.res.ref].value
                /\ s1.res.kind = "flag" /\ s2.res.kind = "flag"
                /\ s2.heap[s2.res.ref].value = s1.heap[s1.res.ref].value

\* remove(n) on the instance a remove had made, n no longer set: the same bitmask
C16_Witness ==
    /\ Returned("remove")
    /\ Len(last.names) = 1
    /\ Known(last.names[1])
    /\ last.this = 2
    /\ heap[1].value = 3
    /\ heap[2].value = 2
    /\ ~IsSet(heap[2].value, last.names[1])
    /\ last.res = Ref(2)

(***************************************************************************)
(* C17  alias is "EMPTY_FLAG" for the value 0 and otherwise the registered *)
(* names whose bit is set, in the registry's order, joined by "+" inside   *)
(* square brackets.                                                        *)
(***************************************************************************)
RECURSIVE SetNames(_, _)
SetNames(v, j) ==
    IF j = 0 THEN ""
    ELSE LET front == SetNames(v, j - 1)
         IN  IF ~TestBit(v, j - 1) THEN front
             ELSE IF front = "" THEN flags[j].key
             ELSE front \o "+" \o flags[j].key

Label(v) == IF v = 0 THEN "EMPTY_FLAG" ELSE "[" \o SetNames(v, Len(flags)) \o "]"

C17_AliasLabel ==
    Returned("alias") =>
        /\ last.res.kind = "string"
        /\ last.res.str = Label(heap[last.this].value)

\* both names set: the label lists them in the registry's order
C17_Witness ==
    /\ Returned("alias")
    /\ Len(flags) = 2
    /\ heap[last.this].value = 3
    /\ last.res.str = "[" \o flags[1].key \o "+" \o flags[2].key \o "]"

(***************************************************************************)
(* C18  Alias cache: a new flag has the cache null; a read of alias leaves *)
(* the returned string in the cache; a filled cache never changes again,   *)
(* so the label is computed once and every read returns the same string.   *)
(***************************************************************************)
C18_AliasCache ==
    /\ []((Returned("alias") /\ last.res.kind = "string") =>
              heap[last.this].alias = <<last.res.str>>)
    /\ [][/\ \A i \in (Len(heap) + 1)..Len(heap') : heap'[i].alias = Null
          /\ \A i \in 1..Len(heap) :
                 /\ i <= Len(heap')
                 /\ heap[i].alias # Null => heap'[i].alias = heap[i].alias
                 /\ (heap'[i].alias # heap[i].alias) =>
                        /\ last'.op \in {"alias", "toString"}
                        /\ last'.this = i]_vars

\* one instance has been read and holds its label, the other is still unread
C18_Witness ==
    /\ Returned("alias")
    /\ Len(heap) = 2
    /\ last.this = 1
    /\ heap[1].alias = <<"[A]">>
    /\ heap[2].alias = Null

(***************************************************************************)
(* C19  toString() is "Flag(" + alias + ": " + value in decimal + ")" and  *)
(* never fails.                                                            *)
(***************************************************************************)
C19_ToString ==
    Returned("toString") =>
        /\ last.res.kind = "string"
        /\ last.res.str =
               "Flag(" \o Label(heap[last.this].value) \o ": "
                   \o ToString(heap[last.this].value) \o ")"

C19_Witness ==
    /\ Returned("toString")
    /\ flags = <<[key |-> "A", value |-> 1], [key |-> "B", value |-> 2]>>
    /\ last.res.str = "Flag([A+B]: 3)"

(***************************************************************************)
(* C20  empty() succeeds on every registry, the one without names          *)
(* included, with value 0; isEmpty() is true exactly for the value 0, so   *)
(* for empty() and combine() and for no flag with a bit set.               *)
(***************************************************************************)
C20_EmptyAndIsEmpty ==
    /\ pc # "start" =>
           LET e == empty(flags, heap)
               c == combine(flags, heap, <<>>)
           IN  /\ e.res.kind = "flag" /\ e.heap[e.res.ref].value = 0
               /\ isEmpty(e.heap[e.res.ref].value)
               /\ c.res.kind = "flag" /\ isEmpty(c.heap[c.res.ref].value)
    /\ Returned("empty") => ReturnedFlag /\ heap[last.res.ref].value = 0
    /\ Returned("isEmpty") =>
           /\ last.res.kind = "bool"
           /\ last.res.bool <=> heap[last.this].value = 0
           /\ last.res.bool <=> \A b \in 0..MaxBit : ~TestBit(heap[last.this].value, b)

\* empty() on the registry built from no names
C20_Witness ==
    /\ Returned("empty")
    /\ flags = <<>>
    /\ ReturnedFlag
    /\ heap[last.res.ref].value = 0

(***************************************************************************)
(* C14  For a text that is a non-negative integer literal of the radix     *)
(* whose integer lies inside the registry's bits, parse(text, radix)       *)
(* returns a flag whose value is exactly that integer, and has(n) is true  *)
(* exactly for the names whose bit is set in it.  Stated for radix 2 and   *)
(* checked under SpecBig.                                                  *)
(***************************************************************************)
C14_ParseTextExact ==
    LET digits == last.value.text
        literal == digits # <<>> /\ \A i \in 1..Len(digits) : digits[i] \in {"0", "1"}
        integer == {Len(digits) - i : i \in {j \in 1..Len(digits) : digits[j] = "1"}}
    IN  (Returned("parse") /\ literal /\ integer \subseteq 0..(Len(flags) - 1)) =>
            /\ ReturnedFlag
            /\ heap[last.res.ref].value = integer
            /\ \A j \in 1..Len(flags) :
                   hasBig(flags, heap[last.res.ref].value, flags[j].key) <=> (j - 1) \in integer

(***************************************************************************)
(* C21  Scale: the registry built from 100 distinct names gives the i-th   *)
(* name the bit 2^i, i = 0 .. 99, all distinct; combine of all 100 names   *)
(* returns a flag, and has(name) is true on it for each of the 100 names.  *)
(* Checked under SpecScale.                                                *)
(***************************************************************************)
C21_Scale ==
    /\ Returned("from") =>
           /\ Len(flags) = ScaleNames
           /\ \A i \in 1..ScaleNames :
                  flags[i] = [key |-> bigKeys(ScaleNames)[i], value |-> {i - 1}]
           /\ \A i, j \in 1..ScaleNames : flags[i].value = flags[j].value => i = j
    /\ (Returned("combine") /\ last.names = bigKeys(ScaleNames)) =>
           /\ ReturnedFlag
           /\ \A i \in 1..ScaleNames :
                  hasBig(flags, heap[last.res.ref].value, bigKeys(ScaleNames)[i])
    /\ \A k \in 1..Len(heap) :
           (Returned("has") /\ last.this = k /\ heap[k].value = 0..(ScaleNames - 1)
                /\ Known(last.names[1])) =>
               last.res.bool

\* has of the last name has returned on the flag that combine made of all 100 names
C21_Witness ==
    /\ Returned("has")
    /\ last.names = <<"F99">>
    /\ last.this \in 1..Len(heap)
    /\ heap[last.this].value = 0..(ScaleNames - 1)
    /\ last.res.bool

(***************************************************************************)
(* C22  parse(text) without a radix gives what parse(text, 10) gives: the  *)
(* same failure, or a flag of the same value.                              *)
(***************************************************************************)
C22_DefaultRadixIsTen ==
    (Returned("parse") /\ last.value.type = "string" /\ last.radix = Undefined) =>
        LET ten == parse(flags, heap, last.value, 10)
        IN  /\ last.res.kind = ten.res.kind
            /\ last.res.kind = "error" => last.res.str = ten.res.str
            /\ last.res.kind = "flag" =>
                   heap[last.res.ref].value = ten.heap[ten.res.ref].value

(***************************************************************************)
(* C23  The registry is read-only after construction: no call on the       *)
(* registry or on a flag made from it, returning or throwing, changes the  *)
(* name-to-bit mapping.  Every call of keys(), values() and entries()      *)
(* yields all the entries, once each, in assignment order: the i-th item   *)
(* is the name, the bit or the pair of the bit 2^i.                        *)
(***************************************************************************)
C23_RegistryReadOnly ==
    /\ [][pc # "start" => flags' = flags]_vars
    /\ [](Returned("keys") =>
              /\ Len(last.res.list) = Len(flags)
              /\ \A i \in 1..Len(flags) : get(flags, last.res.list[i]) = Shl1(i - 1))
    /\ [](Returned("values") =>
              /\ Len(last.res.list) = Len(flags)
              /\ \A i \in 1..Len(flags) :
                     /\ last.res.list[i] = Shl1(i - 1)
                     /\ \E name \in Names : get(flags, name) = last.res.list[i])
    /\ [](Returned("entries") =>
              /\ Len(last.res.list) = Len(flags)
              /\ \A i \in 1..Len(flags) :
                     /\ last.res.list[i][2] = Shl1(i - 1)
                     /\ get(flags, last.res.list[i][1]) = Shl1(i - 1))

\* keys() has returned both names of a registry from which flags have been made
C23_Witness ==
    /\ Returned("keys")
    /\ Len(last.res.list) = 2
    /\ Len(heap) >= 1

\* f.add(n1)...add(nk) over the first n names; single = TRUE takes the single-name Flag
RECURSIVE AddChain(_, _, _, _, _, _)
AddChain(fl, hp, this, names, n, single) ==
    IF n = 0 THEN [heap |-> hp, res |-> Ref(this)]
    ELSE LET prev == AddChain(fl, hp, this, names, n - 1, single)
         IN  IF prev.res.kind # "flag" THEN prev
             ELSE IF single THEN addOne(fl, prev.heap, prev.res.ref, names[n])
             ELSE add(fl, prev.heap, prev.res.ref, <<names[n]>>)

RECURSIVE RemoveChain(_, _, _, _, _, _)
RemoveChain(fl, hp, this, names, n, single) ==
    IF n = 0 THEN [heap |-> hp, res |-> Ref(this)]
    ELSE LET prev == RemoveChain(fl, hp, this, names, n - 1, single)
         IN  IF prev.res.kind # "flag" THEN prev
             ELSE IF single THEN removeOne(fl, prev.heap, prev.res.ref, names[n])
             ELSE remove(fl, prev.heap, prev.res.ref, <<names[n]>>)

\* both outcomes are flags of one value
SameValue(o1, o2) ==
    /\ o1.res.kind = "flag" /\ o2.res.kind = "flag"
    /\ o1.heap[o1.res.ref].value = o2.heap[o2.res.ref].value

(***************************************************************************)
(* C24  The multi-name add and remove agree with repeated one-name calls:  *)
(* for every flag f and every list n1..nk of registered names,             *)
(* f.add(n1, ..., nk) has the value of f.add(n1)...add(nk) and             *)
(* f.remove(n1, ..., nk) the value of f.remove(n1)...remove(nk), the chain *)
(* made with either Flag class; and for one registered name the two        *)
(* classes return the same: the receiver itself, or a new flag of the same *)
(* value.  Stated of every flag at the moment a call returns it; checked   *)
(* under SpecFlag.                                                         *)
(***************************************************************************)
C24_MultiIsChain ==
    (pc = "returned" /\ ReturnedFlag) =>
        LET f == last.res.ref
        IN  /\ \A names \in {l \in NameLists : AllKnown(l)} :
                   LET k == Len(names)
                   IN  /\ SameValue(add(flags, heap, f, names), AddChain(flags, heap, f, names, k, FALSE))
                       /\ SameValue(add(flags, heap, f, names), AddChain(flags, heap, f, names, k, TRUE))
                       /\ SameValue(remove(flags, heap, f, names),
                                    RemoveChain(flags, heap, f, names, k, FALSE))
                       /\ SameValue(remove(flags, heap, f, names),
                                    RemoveChain(flags, heap, f, names, k, TRUE))
            /\ \A n \in Names :
                   Known(n) =>
                       /\ SameValue(add(flags, heap, f, <<n>>), addOne(flags, heap, f, n))
                       /\ add(flags, heap, f, <<n>>).res.ref = f <=> addOne(flags, heap, f, n).res.ref = f
                       /\ SameValue(remove(flags, heap, f, <<n>>), removeOne(flags, heap, f, n))
                       /\ remove(flags, heap, f, <<n>>).res.ref = f
                              <=> removeOne(flags, heap, f, n).res.ref = f

\* add of two registered names has returned a new flag holding both, from a flag holding neither
C24_Witness ==
    /\ Returned("add")
    /\ Len(last.names) = 2 /\ last.names[1] # last.names[2] /\ AllKnown(last.names)
    /\ ReturnedFlag
    /\ last.this \in 1..Len(heap)
    /\ heap[last.this].value = 0
    /\ heap[last.res.ref].value = 3

====
